---------------------------- MODULE Spec2Model ----------------------------
(***************************************************************************)
(* Model of the two operator scripts of the repository:                    *)
(*   - create_routes.py: the route provisioner (API Gateway routes),       *)
(*   - scripts/generate-cf-lambdas.py: the CloudFormation generator.       *)
(* Python strings are TLA+ strings; a character is SubSeq(s, i, i).        *)
(***************************************************************************)
EXTENDS Integers, Sequences, FiniteSets, TLC

VARIABLES
    \* ---- create_routes.py ----
    table,            \* the ROUTES entries the run iterates, in table order
    run,              \* 1: first invocation of the script, 2: a rerun
    pc,               \* position of the script
    idx,              \* number of entries the for loop has taken so far
    success,          \* line 114
    failed,           \* line 115
    integration_id,   \* local of create_route, line 77
    route_params,     \* local of create_route, lines 80-88
    integrations,     \* provider state: integrations created, oldest first
    routes,           \* provider state: routes created, oldest first
    last_call,        \* the latest provider call of this run and how it ended
    attempted,        \* entries create_integration was called for in this run
    \* ---- generate-cf-lambdas.py ----
    gpc,              \* position of the generator script
    in_file,          \* sam/template.yaml: whether it exists, and its lines
    sam_content,      \* the input document (a sequence of lines), line 8
    functions,        \* line 11
    rendered,         \* number of entries the render loop has taken so far
    cf_template,      \* the document under construction, lines 23-123
    out_file,         \* content of sam/production-lambdas-only.yaml
    \* ---- the two string transformations, applied on their own ----
    str_pc,           \* "input", then "applied"
    fn_in, fn_out,    \* a name and its deployed (kebab-case) form
    h_in, h_out       \* an extracted handler and its normalized form

rvars == <<table, run, pc, idx, success, failed, integration_id, route_params,
           integrations, routes, last_call, attempted>>
gvars == <<gpc, in_file, sam_content, functions, rendered, cf_template, out_file>>
svars == <<str_pc, fn_in, fn_out, h_in, h_out>>
vars  == <<rvars, gvars, svars>>

-----------------------------------------------------------------------------
(* Bounds of the model *)

\* number of consecutive ROUTES entries a modelled run iterates
NumRoutes == 3

\* number of function declarations in an input document, at most
MaxDecls == 3

\* length of a name under the name transformation, at most
MaxNameLen == 4

\* number of pieces a handler is made of, at most
MaxPieces == 3

-----------------------------------------------------------------------------
(* create_routes.py: configuration *)

API_ID == "w5gyvgfskh"
AUTHORIZER_ID == "shn0ze"
REGION == "us-east-1"
ACCOUNT_ID == "523115032346"

Route(lambda_name, path, needs_auth) ==
    [lambda_name |-> lambda_name, path |-> path, needs_auth |-> needs_auth]

\* The ROUTES table, in insertion order (the order dict.items() iterates).
ROUTES == <<
    Route("evo-uds-v3-production-register", "/api/auth/register", FALSE),
    Route("evo-uds-v3-production-refresh-token", "/api/auth/refresh", FALSE),
    Route("evo-uds-v3-production-forgot-password", "/api/auth/forgot-password", FALSE),
    Route("evo-uds-v3-production-reset-password", "/api/auth/reset-password", FALSE),
    Route("evo-uds-v3-production-mfa-verify-login", "/api/auth/mfa/verify", FALSE),
    Route("evo-uds-v3-production-logout", "/api/auth/logout", TRUE),
    Route("evo-uds-v3-production-change-password", "/api/auth/change-password", TRUE),
    Route("evo-uds-v3-production-mfa-enroll", "/api/auth/mfa/enroll", TRUE),
    Route("evo-uds-v3-production-mfa-check", "/api/auth/mfa/check", TRUE),
    Route("evo-uds-v3-production-mfa-list-factors", "/api/auth/mfa/factors", TRUE),
    Route("evo-uds-v3-production-save-aws-credentials", "/api/aws/credentials", TRUE),
    Route("evo-uds-v3-production-list-aws-credentials", "/api/aws/credentials/list", TRUE),
    Route("evo-uds-v3-production-validate-aws-credentials", "/api/aws/credentials/validate", TRUE),
    Route("evo-uds-v3-production-delete-aws-credentials", "/api/aws/credentials/delete", TRUE),
    Route("evo-uds-v3-production-save-azure-credentials", "/api/azure/credentials", TRUE),
    Route("evo-uds-v3-production-list-azure-credentials", "/api/azure/credentials/list", TRUE),
    Route("evo-uds-v3-production-validate-azure-credentials", "/api/azure/credentials/validate", TRUE),
    Route("evo-uds-v3-production-security-scan", "/api/security/scan", TRUE),
    Route("evo-uds-v3-production-list-security-scans", "/api/security/scans", TRUE),
    Route("evo-uds-v3-production-compliance-scan", "/api/security/compliance", TRUE),
    Route("evo-uds-v3-production-fetch-daily-costs", "/api/costs/daily", TRUE),
    Route("evo-uds-v3-production-cost-optimization", "/api/costs/optimization", TRUE),
    Route("evo-uds-v3-production-dashboard-metrics", "/api/dashboard/metrics", TRUE),
    Route("evo-uds-v3-production-executive-dashboard", "/api/dashboard/executive", TRUE),
    Route("evo-uds-v3-production-list-organizations", "/api/organizations", TRUE),
    Route("evo-uds-v3-production-list-users", "/api/users", TRUE),
    Route("evo-uds-v3-production-validate-license", "/api/licenses/validate", TRUE) >>

\* The tables a modelled run iterates: every run of NumRoutes consecutive
\* entries of ROUTES (the whole table when it is no longer than that).
Tables ==
    IF Len(ROUTES) <= NumRoutes THEN {ROUTES}
    ELSE {SubSeq(ROUTES, b + 1, b + NumRoutes) : b \in 0..(Len(ROUTES) - NumRoutes)}

\* The entry the current call of create_route works on.
Cur == table[idx]

NoParams == [ApiId |-> ""]
NoCall == <<"", "">>

-----------------------------------------------------------------------------
(* create_routes.py: create_route(lambda_name, path, needs_auth) *)

\* line 74
IntegrationUri(lambda_name) ==
    "arn:aws:lambda:" \o REGION \o ":" \o ACCOUNT_ID \o ":function:" \o lambda_name

\* lines 71-76: the request of apigw.create_integration
IntegrationRequest(lambda_name) ==
    [ApiId |-> API_ID,
     IntegrationType |-> "AWS_PROXY",
     IntegrationUri |-> IntegrationUri(lambda_name),
     PayloadFormatVersion |-> "2.0"]

\* The identifier the provider gives a new integration: unique per integration.
FreshIntegrationId == "i" \o ToString(Len(integrations) + 1)
FreshRouteId == "r" \o ToString(Len(routes) + 1)

\* Mutant of RouteParams: the needs_auth test is lost, every route gets the
\* authorizer.
RouteParams_AlwaysAuth(path, needs_auth, id) ==
    [ApiId |-> API_ID,
     RouteKey |-> "POST " \o path,
     Target |-> "integrations/" \o id,
     AuthorizationType |-> "JWT",
     AuthorizerId |-> AUTHORIZER_ID]

\* lines 80-88: the request of apigw.create_route
RouteParams(path, needs_auth, id) ==
    LET base == [ApiId |-> API_ID,
                 RouteKey |-> "POST " \o path,
                 Target |-> "integrations/" \o id]
    IN  IF needs_auth
        THEN base @@ [AuthorizationType |-> "JWT", AuthorizerId |-> AUTHORIZER_ID]
        ELSE base

\* Mutant of Iterate: an entry that already has an integration is skipped.
Iterate_SkipExisting ==
    /\ pc = "loop"
    /\ idx < Len(table)
    /\ idx' = idx + 1
    /\ integration_id' = ""
    /\ route_params' = NoParams
    /\ pc' = IF \E i \in DOMAIN integrations :
                   integrations[i].IntegrationUri = IntegrationUri(table[idx + 1].lambda_name)
             THEN "loop" ELSE "create_integration"
    /\ success' = IF pc' = "loop" THEN success + 1 ELSE success
    /\ UNCHANGED <<table, run, failed, integrations, routes, last_call,
                   attempted>>
    /\ UNCHANGED <<gvars, svars>>

\* lines 117-118, 68: the for loop takes the next entry and calls
\* create_route, whose locals are not bound yet
Iterate ==
    /\ pc = "loop"
    /\ idx < Len(table)
    /\ idx' = idx + 1
    /\ integration_id' = ""
    /\ route_params' = NoParams
    /\ pc' = "create_integration"
    /\ UNCHANGED <<table, run, success, failed, integrations, routes, last_call,
                   attempted>>
    /\ UNCHANGED <<gvars, svars>>

\* lines 71-88: create_integration returns; route_params is built
CreateIntegrationOk ==
    /\ pc = "create_integration"
    /\ attempted' = Append(attempted, Cur.lambda_name)
    /\ integrations' = Append(integrations,
           IntegrationRequest(Cur.lambda_name) @@ [IntegrationId |-> FreshIntegrationId])
    /\ integration_id' = FreshIntegrationId
    /\ route_params' = RouteParams(Cur.path, Cur.needs_auth, FreshIntegrationId)
    /\ last_call' = <<"create_integration", "returned">>
    /\ pc' = "create_route"
    /\ UNCHANGED <<table, run, idx, success, failed, routes>>
    /\ UNCHANGED <<gvars, svars>>

\* Mutant of CreateIntegrationRaise: the exception is not caught and ends the
\* script.
CreateIntegrationRaise_Abort ==
    /\ pc = "create_integration"
    /\ attempted' = Append(attempted, Cur.lambda_name)
    /\ last_call' = <<"create_integration", "raised">>
    /\ pc' = "done"
    /\ UNCHANGED <<table, run, idx, success, failed, integration_id, route_params,
                   integrations, routes>>
    /\ UNCHANGED <<gvars, svars>>

\* lines 71, 107-109, 120-122: create_integration raises; create_route returns
\* False and the loop counts a failure
CreateIntegrationRaise ==
    /\ pc = "create_integration"
    /\ attempted' = Append(attempted, Cur.lambda_name)
    /\ last_call' = <<"create_integration", "raised">>
    /\ failed' = failed + 1
    /\ pc' = "loop"
    /\ UNCHANGED <<table, run, idx, success, integration_id, route_params,
                   integrations, routes>>
    /\ UNCHANGED <<gvars, svars>>

\* line 90: create_route returns
CreateRouteOk ==
    /\ pc = "create_route"
    /\ routes' = Append(routes, route_params @@ [RouteId |-> FreshRouteId])
    /\ last_call' = <<"create_route", "returned">>
    /\ pc' = "add_permission"
    /\ UNCHANGED <<table, run, idx, success, failed, integration_id, route_params,
                   integrations, attempted>>
    /\ UNCHANGED <<gvars, svars>>

\* Mutant of CreateRouteRaise: the failure is logged but not counted.
CreateRouteRaise_Uncounted ==
    /\ pc = "create_route"
    /\ last_call' = <<"create_route", "raised">>
    /\ pc' = "loop"
    /\ UNCHANGED <<table, run, idx, success, failed, integration_id, route_params,
                   integrations, routes, attempted>>
    /\ UNCHANGED <<gvars, svars>>

\* Mutant of CreateRouteRaise: the integration just created is deleted again.
CreateRouteRaise_Rollback ==
    /\ pc = "create_route"
    /\ last_call' = <<"create_route", "raised">>
    /\ integrations' = SubSeq(integrations, 1, Len(integrations) - 1)
    /\ failed' = failed + 1
    /\ pc' = "loop"
    /\ UNCHANGED <<table, run, idx, success, integration_id, route_params,
                   routes, attempted>>
    /\ UNCHANGED <<gvars, svars>>

\* lines 90, 107-109, 120-122: create_route raises; create_route returns False
\* and the loop counts a failure
CreateRouteRaise ==
    /\ pc = "create_route"
    /\ last_call' = <<"create_route", "raised">>
    /\ failed' = failed + 1
    /\ pc' = "loop"
    /\ UNCHANGED <<table, run, idx, success, integration_id, route_params,
                   integrations, routes, attempted>>
    /\ UNCHANGED <<gvars, svars>>

\* lines 94-100, 104-105, 118-119, 122: add_permission returns; create_route
\* returns True and the loop counts a success
AddPermissionOk ==
    /\ pc = "add_permission"
    /\ last_call' = <<"add_permission", "returned">>
    /\ success' = success + 1
    /\ pc' = "loop"
    /\ UNCHANGED <<table, run, idx, failed, integration_id, route_params,
                   integrations, routes, attempted>>
    /\ UNCHANGED <<gvars, svars>>

\* Mutant of AddPermissionRaise: the exception reaches the outer except and
\* fails the route.
AddPermissionRaise_FailsRoute ==
    /\ pc = "add_permission"
    /\ last_call' = <<"add_permission", "raised">>
    /\ failed' = failed + 1
    /\ pc' = "loop"
    /\ UNCHANGED <<table, run, idx, success, integration_id, route_params,
                   integrations, routes, attempted>>
    /\ UNCHANGED <<gvars, svars>>

\* lines 94-105, 118-119, 122: add_permission raises, the bare except passes;
\* create_route returns True and the loop counts a success
AddPermissionRaise ==
    /\ pc = "add_permission"
    /\ last_call' = <<"add_permission", "raised">>
    /\ success' = success + 1
    /\ pc' = "loop"
    /\ UNCHANGED <<table, run, idx, failed, integration_id, route_params,
                   integrations, routes, attempted>>
    /\ UNCHANGED <<gvars, svars>>

\* line 124: the loop is exhausted, the totals are printed
Finish ==
    /\ pc = "loop"
    /\ idx = Len(table)
    /\ pc' = "done"
    /\ UNCHANGED <<table, run, idx, success, failed, integration_id, route_params,
                   integrations, routes, last_call, attempted>>
    /\ UNCHANGED <<gvars, svars>>

\* The operator invokes the script again on the same table: lines 114-115 run
\* afresh, the provider keeps what the first run created.
Rerun ==
    /\ pc = "done"
    /\ run = 1
    /\ run' = 2
    /\ pc' = "loop"
    /\ idx' = 0
    /\ success' = 0
    /\ failed' = 0
    /\ integration_id' = ""
    /\ route_params' = NoParams
    /\ last_call' = NoCall
    /\ attempted' = <<>>
    /\ UNCHANGED <<table, integrations, routes>>
    /\ UNCHANGED <<gvars, svars>>

RoutesInit ==
    /\ table \in Tables
    /\ run = 1
    /\ pc = "loop"
    /\ idx = 0
    /\ success = 0
    /\ failed = 0
    /\ integration_id = ""
    /\ route_params = NoParams
    /\ integrations = <<>>
    /\ routes = <<>>
    /\ last_call = NoCall
    /\ attempted = <<>>

\* The route provisioner is not running.
RoutesIdle ==
    /\ table = <<>>
    /\ run = 1
    /\ pc = "idle"
    /\ idx = 0
    /\ success = 0
    /\ failed = 0
    /\ integration_id = ""
    /\ route_params = NoParams
    /\ integrations = <<>>
    /\ routes = <<>>
    /\ last_call = NoCall
    /\ attempted = <<>>

NoFile == [exists |-> FALSE, content |-> <<>>]

\* The template generator is not running.
GenIdle ==
    /\ gpc = "idle"
    /\ in_file = NoFile
    /\ sam_content = <<>>
    /\ functions = <<>>
    /\ rendered = 0
    /\ cf_template = <<>>
    /\ out_file = NoFile

\* No string transformation is under test.
StrIdle ==
    /\ str_pc = "idle"
    /\ fn_in = ""
    /\ fn_out = ""
    /\ h_in = ""
    /\ h_out = ""

-----------------------------------------------------------------------------
(* generate-cf-lambdas.py: strings *)

Upper == "ABCDEFGHIJKLMNOPQRSTUVWXYZ"
Lower == "abcdefghijklmnopqrstuvwxyz"

Char(s, i) == SubSeq(s, i, i)

\* [A-Z]
IsUpper(c) == \E i \in 1..Len(Upper) : Char(Upper, i) = c

\* [a-zA-Z]
IsLetter(c) == IsUpper(c) \/ \E i \in 1..Len(Lower) : Char(Lower, i) = c

\* str.lower() on one character
LowerChar(c) ==
    IF IsUpper(c)
    THEN Char(Lower, CHOOSE i \in 1..Len(Upper) : Char(Upper, i) = c)
    ELSE c

RECURSIVE StrLowerFrom(_, _)
StrLowerFrom(s, i) ==
    IF i > Len(s) THEN "" ELSE LowerChar(Char(s, i)) \o StrLowerFrom(s, i + 1)

\* line 94: str.lower()
StrLower(s) == StrLowerFrom(s, 1)

RECURSIVE ReSubFrom(_, _)
ReSubFrom(s, i) ==
    IF i > Len(s) THEN ""
    ELSE (IF i # 1 /\ IsUpper(Char(s, i)) THEN "-" ELSE "")
             \o Char(s, i) \o ReSubFrom(s, i + 1)

\* Mutant of ReSubHyphen: the pattern without its lookbehind (?<!^).
ReSubHyphen_NoLookbehind(s) ==
    (IF Len(s) > 0 /\ IsUpper(Char(s, 1)) THEN "-" ELSE "") \o ReSubFrom(s, 1)

\* line 94: re.sub(r'(?<!^)(?=[A-Z])', '-', s): the pattern matches the empty
\* string at every place that is not the start of s and is followed by an
\* uppercase letter; each match is replaced by a hyphen.
ReSubHyphen(s) == ReSubFrom(s, 1)

\* line 94: the deployed name of a function
Kebab(name) == StrLower(ReSubHyphen(name))

RECURSIVE ReplaceFrom(_, _, _, _)
ReplaceFrom(s, old, new, i) ==
    IF i > Len(s) THEN ""
    ELSE IF i + Len(old) - 1 <= Len(s) /\ SubSeq(s, i, i + Len(old) - 1) = old
         THEN new \o ReplaceFrom(s, old, new, i + Len(old))
         ELSE Char(s, i) \o ReplaceFrom(s, old, new, i + 1)

\* str.replace(old, new), old not empty: every occurrence of old, found from
\* left to right without overlap, is replaced.
Replace(s, old, new) == ReplaceFrom(s, old, new, 1)

\* line 97
NormalizeHandler(h) == Replace(h, "dist/", "")

-----------------------------------------------------------------------------
(* generate-cf-lambdas.py: the input document *)

\* The document is a sequence of lines; a line is one of
\*   decl     "  <arg>Function:"
\*   type     "    Type: AWS::Serverless::Function"
\*   props    "    Properties:"
\*   fname    "      FunctionName: ..."
\*   codeuri  "      CodeUri: ..."
\*   handler  "      Handler: <arg>"   (arg not empty, over [\w/\-\.])
Line(kind, arg) == [kind |-> kind, arg |-> arg]

\* A declaration as written in the document: its logical name, whether it has
\* a CodeUri field, and its Handler field ("" when it has none).
DeclLines(d) ==
    <<Line("decl", d.name), Line("type", ""), Line("props", ""), Line("fname", "")>>
    \o (IF d.codeuri THEN <<Line("codeuri", "")>> ELSE <<>>)
    \o (IF d.handler # "" THEN <<Line("handler", d.handler)>> ELSE <<>>)

DeclNames == {"FetchCosts", "ListUsers"}
DeclHandlers == {"dist/fetchCosts.handler", "listUsers.handler"}

Decls == [name : DeclNames, codeuri : BOOLEAN, handler : DeclHandlers \cup {""}]

RECURSIVE Flatten(_)
Flatten(ds) == IF ds = <<>> THEN <<>> ELSE DeclLines(Head(ds)) \o Flatten(Tail(ds))

RECURSIVE DeclSeqs(_)
DeclSeqs(n) ==
    IF n = 0 THEN {<<>>}
    ELSE LET S == DeclSeqs(n - 1)
         IN  S \cup {Append(ds, d) : ds \in {x \in S : Len(x) = n - 1}, d \in Decls}

\* The documents the generator is run on.
Documents == {Flatten(ds) : ds \in DeclSeqs(MaxDecls)}

-----------------------------------------------------------------------------
(* generate-cf-lambdas.py: extraction *)

\* ([A-Z][a-zA-Z]+) followed by "Function:"
NameMatches(name) ==
    /\ Len(name) >= 2
    /\ IsUpper(Char(name, 1))
    /\ \A i \in 2..Len(name) : IsLetter(Char(name, i))

\* The first line of the given kind at or after place from; 0 if there is none.
FirstAt(doc, kind, from) ==
    LET S == {i \in from..Len(doc) : doc[i].kind = kind}
    IN  IF S = {} THEN 0 ELSE CHOOSE i \in S : \A j \in S : i <= j

\* line 12: the pattern tried at line i. The name line, the Type line, the
\* Properties line and the FunctionName line follow each other (\s+); then
\* .*? (with DOTALL, across lines) runs to the first CodeUri after them, and
\* again to the first Handler after that. The place of that Handler line,
\* where the match ends; 0 if the pattern does not match at i.
MatchEnd(doc, i) ==
    IF /\ i + 3 <= Len(doc)
       /\ doc[i].kind = "decl"
       /\ NameMatches(doc[i].arg)
       /\ doc[i + 1].kind = "type"
       /\ doc[i + 2].kind = "props"
       /\ doc[i + 3].kind = "fname"
    THEN LET c == FirstAt(doc, "codeuri", i + 4)
         IN  IF c = 0 THEN 0 ELSE FirstAt(doc, "handler", c + 1)
    ELSE 0

RECURSIVE FindAllFrom(_, _)
FindAllFrom(doc, p) ==
    IF p > Len(doc) THEN <<>>
    ELSE LET e == MatchEnd(doc, p)
         IN  IF e = 0 THEN FindAllFrom(doc, p + 1)
             ELSE <<<<doc[p].arg, doc[e].arg>>>> \o FindAllFrom(doc, e + 1)

\* line 13: re.findall: the matches from left to right, each search starting
\* where the previous match ended; a match is its two groups.
FindAll(doc) == FindAllFrom(doc, 1)

\* lines 15-18
ExtractFunctions(doc) ==
    LET matches == FindAll(doc)
    IN  [i \in 1..Len(matches) |->
            [name |-> matches[i][1], handler |-> matches[i][2]]]

-----------------------------------------------------------------------------
(* generate-cf-lambdas.py: rendering *)

\* lines 23-89: the parameters and the shared execution role
Preamble ==
    <<[section |-> "Parameters",
       names |-> <<"Environment", "ProjectName", "LayerArn", "CodeS3Bucket", "CodeS3Key">>],
      [section |-> "Resource", LogicalId |-> "LambdaExecutionRole",
       Type |-> "AWS::IAM::Role"]>>

\* lines 94-116: the resource block of one function
FunctionBlock(func) ==
    [section |-> "Resource",
     LogicalId |-> func.name \o "Function",
     Type |-> "AWS::Lambda::Function",
     FunctionName |-> "${ProjectName}-${Environment}-" \o Kebab(func.name),
     Runtime |-> "nodejs20.x",
     Handler |-> NormalizeHandler(func.handler)]

\* lines 118-123
Outputs == [section |-> "Outputs", names |-> <<"LambdaExecutionRoleArn", "LayerArn">>]

\* lines 7-8: open() raises when sam/template.yaml is missing, the script ends
ReadInput ==
    /\ gpc = "read"
    /\ IF in_file.exists
       THEN /\ sam_content' = in_file.content
            /\ gpc' = "extract"
       ELSE /\ sam_content' = sam_content
            /\ gpc' = "aborted"
    /\ UNCHANGED <<in_file, functions, rendered, cf_template, out_file>>
    /\ UNCHANGED <<rvars, svars>>

\* Mutant of Extract: an empty match set ends the script.
Extract_AbortOnEmpty ==
    /\ gpc = "extract"
    /\ functions' = ExtractFunctions(sam_content)
    /\ cf_template' = IF functions' = <<>> THEN cf_template ELSE Preamble
    /\ gpc' = IF functions' = <<>> THEN "aborted" ELSE "render"
    /\ UNCHANGED <<in_file, sam_content, rendered, out_file>>
    /\ UNCHANGED <<rvars, svars>>

\* lines 11-89: the functions are extracted, the template starts
Extract ==
    /\ gpc = "extract"
    /\ functions' = ExtractFunctions(sam_content)
    /\ cf_template' = Preamble
    /\ gpc' = "render"
    /\ UNCHANGED <<in_file, sam_content, rendered, out_file>>
    /\ UNCHANGED <<rvars, svars>>

\* lines 92-116: one turn of the render loop
RenderFunction ==
    /\ gpc = "render"
    /\ rendered < Len(functions)
    /\ rendered' = rendered + 1
    /\ cf_template' = Append(cf_template, FunctionBlock(functions[rendered + 1]))
    /\ UNCHANGED <<gpc, in_file, sam_content, functions, out_file>>
    /\ UNCHANGED <<rvars, svars>>

\* lines 118-123: the loop is exhausted, the outputs are added
AppendOutputs ==
    /\ gpc = "render"
    /\ rendered = Len(functions)
    /\ cf_template' = Append(cf_template, Outputs)
    /\ gpc' = "write"
    /\ UNCHANGED <<in_file, sam_content, functions, rendered, out_file>>
    /\ UNCHANGED <<rvars, svars>>

\* lines 126-129: the output file is (over)written
WriteOutput ==
    /\ gpc = "write"
    /\ out_file' = [exists |-> TRUE, content |-> cf_template]
    /\ gpc' = "done"
    /\ UNCHANGED <<in_file, sam_content, functions, rendered, cf_template>>
    /\ UNCHANGED <<rvars, svars>>

GenInit ==
    /\ gpc = "read"
    /\ in_file \in {NoFile} \cup {[exists |-> TRUE, content |-> d] : d \in Documents}
    /\ sam_content = <<>>
    /\ functions = <<>>
    /\ rendered = 0
    /\ cf_template = <<>>
    /\ out_file = NoFile

InitGen == RoutesIdle /\ GenInit /\ StrIdle

NextGen ==
    \/ ReadInput
    \/ Extract
    \/ RenderFunction
    \/ AppendOutputs
    \/ WriteOutput

\* The template generator, run once on a document.
SpecGen == InitGen /\ [][NextGen]_vars

-----------------------------------------------------------------------------
(* The two string transformations of the render loop, on their own *)

RECURSIVE Strings(_, _)
\* the strings of at most n pieces
Strings(pieces, n) ==
    IF n = 0 THEN {""}
    ELSE LET S == Strings(pieces, n - 1)
         IN  S \cup {s \o c : s \in S, c \in pieces}

NameLetters == {"A", "B", "t", "e"}

\* Names over [A-Za-z] that start with an uppercase letter.
NameInputs ==
    {"UserLogin", "A", "ABCTest"}
    \cup {c \o s : c \in {x \in NameLetters : IsUpper(x)},
                   s \in Strings(NameLetters, MaxNameLen - 1)}

ApplyKebab ==
    /\ str_pc = "input"
    /\ fn_out' = Kebab(fn_in)
    /\ str_pc' = "applied"
    /\ UNCHANGED <<fn_in, h_in, h_out>>
    /\ UNCHANGED <<rvars, gvars>>

NameInit ==
    /\ str_pc = "input"
    /\ fn_in \in NameInputs
    /\ fn_out = ""
    /\ h_in = ""
    /\ h_out = ""

InitName == RoutesIdle /\ GenIdle /\ NameInit

NextName == ApplyKebab

\* The name transformation applied to a name.
SpecName == InitName /\ [][NextName]_vars

HandlerPieces == {"dist/", "src/", "index", ".handler"}

\* Handlers over [\w/\-\.], not empty.
HandlerInputs == Strings(HandlerPieces, MaxPieces) \ {""}

ApplyNormalize ==
    /\ str_pc = "input"
    /\ h_out' = NormalizeHandler(h_in)
    /\ str_pc' = "applied"
    /\ UNCHANGED <<fn_in, fn_out, h_in>>
    /\ UNCHANGED <<rvars, gvars>>

HandlerInit ==
    /\ str_pc = "input"
    /\ h_in \in HandlerInputs
    /\ h_out = ""
    /\ fn_in = ""
    /\ fn_out = ""

InitHandler == RoutesIdle /\ GenIdle /\ HandlerInit

NextHandler == ApplyNormalize

\* The handler normalization applied to a handler.
SpecHandler == InitHandler /\ [][NextHandler]_vars

-----------------------------------------------------------------------------
(* The route provisioner as a program *)

Init == RoutesInit /\ GenIdle /\ StrIdle

Next ==
    \/ Iterate
    \/ CreateIntegrationOk
    \/ CreateIntegrationRaise
    \/ CreateRouteOk
    \/ CreateRouteRaise
    \/ AddPermissionOk
    \/ AddPermissionRaise
    \/ Finish
    \/ Rerun

\* The route provisioner, run and possibly rerun once.
Spec == Init /\ [][Next]_vars

-----------------------------------------------------------------------------
(* Route provisioner: properties *)

\* Entries whose call of create_route has returned in this run.
Processed == IF pc \in {"loop", "done"} THEN idx ELSE idx - 1

\* Entries create_integration has been called for in this run.
Called == IF pc = "create_integration" THEN idx - 1 ELSE idx

Names(t, k) == [i \in 1..k |-> t[i].lambda_name]

IntegrationsFor(lambda_name) ==
    {i \in DOMAIN integrations :
        integrations[i].IntegrationUri = IntegrationUri(lambda_name)}

RoutesFor(path) ==
    {i \in DOMAIN routes : routes[i].RouteKey = "POST " \o path}

BaseKeys == {"ApiId", "RouteKey", "Target"}
AuthKeys == {"AuthorizationType", "AuthorizerId"}

\* C1: after any number of iterations success + failed is the number of
\* routes processed so far, and when the loop has ended it is len(ROUTES),
\* whichever provider calls returned or raised.
C1_CountsAddUp ==
    /\ success + failed = Processed
    /\ pc = "done" => success + failed = Len(table)

C1_Witness ==
    /\ pc = "done"
    /\ success > 0
    /\ failed > 0
    /\ last_call = <<"add_permission", "raised">>

\* C2: the request passed to apigw.create_route carries ApiId, RouteKey =
\* 'POST ' + path and Target; with needs_auth it carries AuthorizationType =
\* 'JWT' and AuthorizerId = AUTHORIZER_ID besides, without needs_auth it has
\* neither key.
C2_RouteRequest ==
    pc = "create_route" =>
        /\ route_params.ApiId = API_ID
        /\ route_params.RouteKey = "POST " \o Cur.path
        /\ route_params.Target = "integrations/" \o integration_id
        /\ Cur.needs_auth =>
              /\ DOMAIN route_params = BaseKeys \cup AuthKeys
              /\ route_params.AuthorizationType = "JWT"
              /\ route_params.AuthorizerId = AUTHORIZER_ID
        /\ ~Cur.needs_auth => DOMAIN route_params = BaseKeys

\* a request with authorization is about to be sent after one without was
C2_Witness ==
    /\ pc = "create_route"
    /\ Cur.needs_auth
    /\ AuthKeys \subseteq DOMAIN route_params
    /\ \E i \in DOMAIN routes : DOMAIN routes[i] \cap AuthKeys = {}

\* C3: once create_integration and create_route have returned for a route,
\* the route is counted in success and never in failed, whether add_permission
\* returns or raises.
C3_PermissionStep ==
    /\ routes' # routes => pc' = "add_permission"
    /\ pc = "add_permission" =>
          /\ success' = success + 1
          /\ failed' = failed
          /\ pc' = "loop"

C3_PermissionBestEffort == [][C3_PermissionStep]_vars

C3_Witness ==
    /\ pc = "loop"
    /\ last_call = <<"add_permission", "raised">>
    /\ success = idx
    /\ Len(routes) = idx

\* C4: a raise of create_integration or create_route is caught and adds
\* exactly one to failed, and the batch goes on: in a run create_integration
\* is called exactly once per entry of the table, in table order.
C4_AttemptedInOrder ==
    /\ attempted = Names(table, Called)
    /\ pc = "done" => attempted = Names(table, Len(table))

C4_FailureStep ==
    pc \in {"create_integration", "create_route"} =>
        /\ pc' \in {"create_route", "add_permission", "loop"}
        /\ pc' = "loop" =>
              /\ failed' = failed + 1
              /\ success' = success
              /\ idx' = idx

C4_FailureDoesNotStopBatch == []C4_AttemptedInOrder /\ [][C4_FailureStep]_vars

\* the first entry failed and the last one was still created
C4_Witness ==
    /\ pc = "done"
    /\ \A i \in DOMAIN integrations :
          integrations[i].IntegrationUri # IntegrationUri(table[1].lambda_name)
    /\ failed >= 1
    /\ last_call = <<"add_permission", "returned">>

\* C5: a rerun checks nothing of what the first run created: it calls
\* create_integration again for every entry, and after two fully successful
\* runs every entry has two integrations (and two routes).
C5_RerunNotIdempotent ==
    run = 2 =>
        /\ attempted = Names(table, Called)
        /\ (pc = "done" /\ Len(routes) = 2 * Len(table)) =>
              \A i \in DOMAIN table :
                  /\ Cardinality(IntegrationsFor(table[i].lambda_name)) = 2
                  /\ Cardinality(RoutesFor(table[i].path)) = 2

C5_Witness ==
    /\ run = 2
    /\ pc = "done"
    /\ success = Len(table)
    /\ Len(routes) = 2 * Len(table)

\* C10: within an iteration create_route is called only after
\* create_integration returned and targets the integration it returned,
\* add_permission only after create_route returned; nothing is ever deleted,
\* so a raise of create_route leaves the integration in place while the route
\* counts as failed, and routes created <= integrations created.
C10_Order ==
    /\ pc = "create_route" =>
          /\ last_call = <<"create_integration", "returned">>
          /\ integrations[Len(integrations)].IntegrationId = integration_id
          /\ integrations[Len(integrations)].IntegrationUri =
                IntegrationUri(Cur.lambda_name)
          /\ route_params.Target = "integrations/" \o integration_id
    /\ pc = "add_permission" =>
          /\ last_call = <<"create_route", "returned">>
          /\ routes[Len(routes)].Target = "integrations/" \o integration_id
    /\ Len(routes) <= Len(integrations)
    /\ \A i \in DOMAIN routes : \E j \in DOMAIN integrations :
          routes[i].Target = "integrations/" \o integrations[j].IntegrationId

C10_ForwardStep ==
    /\ Len(integrations') >= Len(integrations)
    /\ SubSeq(integrations', 1, Len(integrations)) = integrations
    /\ Len(routes') >= Len(routes)
    /\ SubSeq(routes', 1, Len(routes)) = routes
    /\ (pc = "create_route" /\ pc' = "loop") =>
          /\ integrations' = integrations
          /\ failed' = failed + 1

C10_ForwardOnly == []C10_Order /\ [][C10_ForwardStep]_vars

\* create_route raised after create_integration returned: an orphan
C10_Witness ==
    /\ pc = "loop"
    /\ last_call = <<"create_route", "raised">>
    /\ Len(integrations) = Len(routes) + 1
    /\ failed = 1

-----------------------------------------------------------------------------
(* Template generator: properties *)

StartsWith(s, prefix) ==
    Len(s) >= Len(prefix) /\ SubSeq(s, 1, Len(prefix)) = prefix

\* The logical ids of the function resource blocks of a document, in order.
FunctionBlockIds(content) ==
    LET blocks == SelectSeq(content,
                      LAMBDA r : "Type" \in DOMAIN r /\ r.Type = "AWS::Lambda::Function")
    IN  [i \in 1..Len(blocks) |-> blocks[i].LogicalId]

\* The declaration at line i matches the scan pattern: the pattern matches at
\* i and the match ends before the next declaration starts.
DeclarationMatches(doc, i) ==
    /\ doc[i].kind = "decl"
    /\ MatchEnd(doc, i) # 0
    /\ \A j \in (i + 1)..MatchEnd(doc, i) : doc[j].kind # "decl"

\* The names of the declarations that match the scan pattern, in order.
MatchingDeclarations(doc) ==
    LET at == SelectSeq([i \in 1..Len(doc) |-> i],
                        LAMBDA i : DeclarationMatches(doc, i))
    IN  [k \in 1..Len(at) |-> doc[at[k]].arg \o "Function"]

\* C6: the rendered Handler is the extracted handler without its leading
\* 'dist/' when it starts with 'dist/', and the extracted handler unchanged
\* when it does not (also when 'dist/' occurs elsewhere in it).
C6_StripsPrefixOnly ==
    str_pc = "applied" =>
        h_out = IF StartsWith(h_in, "dist/")
                THEN SubSeq(h_in, Len("dist/") + 1, Len(h_in))
                ELSE h_in

RECURSIVE IsSubsequence(_, _)
\* a is b with some elements left out
IsSubsequence(a, b) ==
    IF a = <<>> THEN TRUE
    ELSE IF b = <<>> THEN FALSE
    ELSE IF Head(a) = Head(b) THEN IsSubsequence(Tail(a), Tail(b))
    ELSE IsSubsequence(a, Tail(b))

Occurrences(seq, x) == Cardinality({i \in DOMAIN seq : seq[i] = x})

\* The '<Name>Function' ids of all declarations of a document, in order.
DeclaredIds(doc) ==
    LET at == SelectSeq([i \in 1..Len(doc) |-> i], LAMBDA i : doc[i].kind = "decl")
    IN  [k \in 1..Len(at) |-> doc[at[k]].arg \o "Function"]

\* C7: every function declaration of the input that matches the scan pattern
\* yields exactly one '<Name>Function' block in the output, in the order of
\* the declarations (none dropped or reordered); no block is emitted for a
\* name that does not occur in the input, and none is duplicated; also when a
\* declaration without a Handler field precedes another declaration.
C7_OneBlockPerDeclaration ==
    gpc = "done" =>
        LET blocks == FunctionBlockIds(out_file.content)
            declared == DeclaredIds(in_file.content)
        IN  /\ IsSubsequence(MatchingDeclarations(in_file.content), blocks)
            /\ \A k \in DOMAIN blocks :
                  /\ Occurrences(declared, blocks[k]) >= 1
                  /\ Occurrences(blocks, blocks[k]) <= Occurrences(declared, blocks[k])

\* C8: when the scan finds no match the generator does not fail: it writes
\* the output file, which declares the preamble and the shared execution role
\* and has no function resource block.
C8_ZeroMatches ==
    (in_file.exists /\ gpc \notin {"read", "extract"} /\ functions = <<>>) =>
        /\ gpc # "aborted"
        /\ gpc = "done" =>
              /\ out_file.exists
              /\ out_file.content = Preamble \o <<Outputs>>
              /\ FunctionBlockIds(out_file.content) = <<>>

\* a document with a declaration, none of which the scan matches
C8_Witness ==
    /\ gpc = "done"
    /\ in_file.exists
    /\ in_file.content # <<>>
    /\ functions = <<>>
    /\ out_file.exists

\* The place in the deployed name of the character at place i of the name.
KebabPlace(name, i) == i + Cardinality({j \in 2..i : IsUpper(Char(name, j))})

\* C9: the deployed name is the name with a hyphen inserted before each
\* uppercase letter that is not its first character, lower-cased: 'UserLogin'
\* -> 'user-login', 'A' -> 'a', 'ABCTest' -> 'a-b-c-test'; it never starts
\* with a hyphen and has no uppercase letter.
C9_KebabCase ==
    str_pc = "applied" =>
        /\ Len(fn_out) = KebabPlace(fn_in, Len(fn_in))
        /\ \A i \in 1..Len(fn_in) :
              /\ Char(fn_out, KebabPlace(fn_in, i)) = LowerChar(Char(fn_in, i))
              /\ (i > 1 /\ IsUpper(Char(fn_in, i))) =>
                    Char(fn_out, KebabPlace(fn_in, i) - 1) = "-"
        /\ Char(fn_out, 1) # "-"
        /\ \A k \in 1..Len(fn_out) : ~IsUpper(Char(fn_out, k))
        /\ fn_in = "UserLogin" => fn_out = "user-login"
        /\ fn_in = "A" => fn_out = "a"
        /\ fn_in = "ABCTest" => fn_out = "a-b-c-test"

C9_Witness ==
    /\ str_pc = "applied"
    /\ fn_in = "ABCTest"
    /\ fn_out = "a-b-c-test"


=============================================================================
